---- MODULE Spec2Model ----
(***************************************************************************)
(* Model of the km-gen generator library (src/src/lib.rs,                  *)
(* src/src/random.rs): RandomFlags, RandomSwitch, UniformRange,            *)
(* UniformCollection and DefaultOr.                                        *)
(*                                                                         *)
(* Representation choices:                                                 *)
(*  - a bit mask (T::Bits) is the set of its bit positions, so `|` is      *)
(*    union, `&` is intersection and `!` is complement in BitPositions;    *)
(*  - the flags type T has two named flags (bits 0 and 1); bit 2 is a bit  *)
(*    of T::Bits that belongs to no flag (reachable with from_bits_retain) *)
(*    so that from_bits_truncate is not the identity;                      *)
(*  - an f64 is a record [nan, v] with v in tenths; comparisons follow     *)
(*    IEEE 754 (every comparison with NaN is false);                       *)
(*  - the random source is nondeterminism over the outcomes it can give;   *)
(*  - xx_ret is what the latest call on the object returned.               *)
(***************************************************************************)
EXTENDS Integers, Sequences, FiniteSets, TLC

VARIABLES rf_prob, inclusion, exclusion, constraints, rf_ret,
          incl_ever, excl_ever,
          rs_prob, rs_given, rs_ret, rs_invoked,
          ur_lb, ur_ub, ur_ret,
          uc_values, uc_init, uc_ret,
          do_default, do_given, do_inner, do_ret

vars == <<rf_prob, inclusion, exclusion, constraints, rf_ret,
          incl_ever, excl_ever,
          rs_prob, rs_given, rs_ret, rs_invoked,
          ur_lb, ur_ub, ur_ret,
          uc_values, uc_init, uc_ret,
          do_default, do_given, do_inner, do_ret>>

rfVars == <<rf_prob, inclusion, exclusion, constraints, rf_ret, incl_ever, excl_ever>>
rsVars == <<rs_prob, rs_given, rs_ret, rs_invoked>>
urVars == <<ur_lb, ur_ub, ur_ret>>
ucVars == <<uc_values, uc_init, uc_ret>>
doVars == <<do_default, do_given, do_inner, do_ret>>

\* ---------------------------------------------------------------- bounds
MaxConstraints == 1
MaxPool == 3
MaxVal == 3

\* ------------------------------------------------------- Option<T>, calls
Some(v) == [tag |-> "Some", val |-> v]
None == [tag |-> "None", val |-> 0]
Panic == [tag |-> "Panic", val |-> 0]
Idle == [tag |-> "Idle", val |-> 0]

\* ------------------------------------------------------------------- f64
F(v) == [nan |-> FALSE, v |-> v]
NaN == [nan |-> TRUE, v |-> 0]
Zero == F(0)
One == F(10)
Lt(p, q) == ~p.nan /\ ~q.nan /\ p.v < q.v
Gt(p, q) == Lt(q, p)
Le(p, q) == ~p.nan /\ ~q.nan /\ p.v <= q.v
ProbInputs == {F(0 - 5), F(0), F(5), F(10), F(15), NaN}
InUnit(p) == Le(Zero, p) /\ Le(p, One)

\* rand's Rng::gen_bool(p): panics unless 0 <= p <= 1; p = 0 never yields
\* true and p = 1 always does.
GenBoolPanics(p) == ~InUnit(p)
GenBool(p) == IF p = Zero THEN {FALSE} ELSE IF p = One THEN {TRUE} ELSE BOOLEAN

\* ------------------------------------------------------------- bit masks
BitPositions == {0, 1, 2}
FLAGS == <<{0}, {1}>>
AllBits == UNION {FLAGS[i] : i \in 1..Len(FLAGS)}
Masks == SUBSET BitPositions
ConstraintFlags == SUBSET AllBits
EMPTY == {}
BitOr(a, b) == a \cup b
BitAnd(a, b) == a \cap b
BitNot(a) == BitPositions \ a
from_bits_truncate(bits) == BitAnd(bits, AllBits)

\* ------------------------------------------------------------ RandomFlags
ClampProb(p) == IF Lt(p, Zero) THEN Zero ELSE IF Gt(p, One) THEN One ELSE p

RF_new_prob(p) == p

RF_set_prob(p) ==
    /\ rf_ret.tag # "Panic"
    /\ rf_prob' = ClampProb(p)
    /\ rf_ret' = Idle
    /\ UNCHANGED <<inclusion, exclusion, constraints, incl_ever, excl_ever>>

RF_include(flags) ==
    /\ rf_ret.tag # "Panic"
    /\ inclusion' = from_bits_truncate(BitOr(inclusion, flags))
    /\ incl_ever' = BitOr(incl_ever, flags)
    /\ rf_ret' = Idle
    /\ UNCHANGED <<rf_prob, exclusion, constraints, excl_ever>>

RF_exclude(flags) ==
    /\ rf_ret.tag # "Panic"
    /\ exclusion' = from_bits_truncate(BitOr(exclusion, flags))
    /\ excl_ever' = BitOr(excl_ever, flags)
    /\ rf_ret' = Idle
    /\ UNCHANGED <<rf_prob, inclusion, constraints, incl_ever>>

RF_constraint(flag1, flag2) ==
    /\ rf_ret.tag # "Panic"
    /\ Len(constraints) < MaxConstraints
    /\ constraints' = Append(constraints, <<flag1, flag2>>)
    /\ rf_ret' = Idle
    /\ UNCHANGED <<rf_prob, inclusion, exclusion, incl_ever, excl_ever>>

\* the first loop: one gen_bool draw per flag of T::FLAGS
FreeStage(draws) ==
    UNION {IF draws[i] THEN FLAGS[i] ELSE EMPTY : i \in 1..Len(FLAGS)}

\* variant: the implication is applied without testing flag1
CheckConstraint_always(value, c) == BitOr(value, c[2])

CheckConstraint(value, c) ==
    IF BitOr(value, c[1]) = value THEN BitOr(value, c[2]) ELSE value

RECURSIVE CheckConstraints(_, _, _)
CheckConstraints(value, cs, i) ==
    IF i > Len(cs) THEN value
    ELSE CheckConstraints(CheckConstraint(value, cs[i]), cs, i + 1)

\* variant: exclusion applied after inclusion
Resolve_excludeLast(value) ==
    BitAnd(BitOr(value, inclusion), BitNot(exclusion))

Resolve(value) ==
    BitOr(BitAnd(value, BitNot(exclusion)), inclusion)

RF_value(draws) ==
    from_bits_truncate(Resolve(CheckConstraints(FreeStage(draws), constraints, 1)))

RF_try_generate ==
    /\ rf_ret.tag # "Panic"
    /\ IF Len(FLAGS) > 0 /\ GenBoolPanics(rf_prob)
       THEN rf_ret' = Panic
       ELSE \E draws \in [1..Len(FLAGS) -> GenBool(rf_prob)] :
                rf_ret' = Some(RF_value(draws))
    /\ UNCHANGED <<rf_prob, inclusion, exclusion, constraints, incl_ever, excl_ever>>

\* ----------------------------------------------------------- UniformRange
Ints == 0..MaxVal

UR_results(lb, ub) ==
    IF lb < ub THEN {Some(x) : x \in lb..(ub - 1)} ELSE {None}

UR_try_generate ==
    /\ \E r \in UR_results(ur_lb, ur_ub) : ur_ret' = r
    /\ UNCHANGED <<ur_lb, ur_ub>>

\* ------------------------------------------------------ UniformCollection
Vals == 1..MaxVal
Pools == UNION {[1..n -> Vals] : n \in 0..MaxPool}

UC_is_empty(values) == Len(values) = 0

\* gen_range(0..len) and values[index], with Rust's 0-based index
UC_results(values) ==
    IF UC_is_empty(values) THEN {None}
    ELSE {Some(values[index + 1]) : index \in 0..(Len(values) - 1)}

FirstIndex(values, v) ==
    CHOOSE i \in 1..Len(values) :
        values[i] = v /\ \A j \in 1..(i - 1) : values[j] # v

RemoveAt(values, i) ==
    [j \in 1..(Len(values) - 1) |-> IF j < i THEN values[j] ELSE values[j + 1]]

Count(values, v) == Cardinality({i \in 1..Len(values) : values[i] = v})

\* variant: the sampled element is taken out of the pool
UC_try_generate_take ==
    /\ IF UC_is_empty(uc_values)
       THEN uc_ret' = None /\ uc_values' = uc_values
       ELSE \E index \in 0..(Len(uc_values) - 1) :
                /\ uc_ret' = Some(uc_values[index + 1])
                /\ uc_values' = RemoveAt(uc_values, index + 1)
    /\ UNCHANGED uc_init

UC_try_generate ==
    /\ \E r \in UC_results(uc_values) : uc_ret' = r
    /\ UNCHANGED <<uc_values, uc_init>>

\* variant: every element equal to value is deleted
UC_consume_all(v) ==
    /\ uc_values' = SelectSeq(uc_values, LAMBDA x : x # v)
    /\ uc_ret' = Idle
    /\ UNCHANGED uc_init

\* consume(value): delete the first element equal to value, if any
UC_consume(v) ==
    /\ uc_values' = IF \E i \in 1..Len(uc_values) : uc_values[i] = v
                    THEN RemoveAt(uc_values, FirstIndex(uc_values, v))
                    ELSE uc_values
    /\ uc_ret' = Idle
    /\ UNCHANGED uc_init

\* ----------------------------------------------------------- RandomSwitch
\* RandomSwitch<UniformRange, UniformCollection>: gen1 is the range, gen2 the
\* collection.
RS_set_g1_prob(p) ==
    /\ rs_ret.tag # "Panic"
    /\ rs_prob' = ClampProb(p)
    /\ rs_given' = p
    /\ rs_ret' = Idle
    /\ rs_invoked' = {}
    /\ UNCHANGED <<urVars, ucVars>>

RS_try_generate ==
    /\ rs_ret.tag # "Panic"
    /\ IF GenBoolPanics(rs_prob)
       THEN /\ rs_ret' = Panic
            /\ rs_invoked' = {}
            /\ UNCHANGED <<urVars, ucVars>>
       ELSE \E b \in GenBool(rs_prob) :
                IF b
                THEN /\ UR_try_generate
                     /\ rs_ret' = ur_ret'
                     /\ rs_invoked' = {1}
                     /\ UNCHANGED ucVars
                ELSE /\ UC_try_generate
                     /\ rs_ret' = uc_ret'
                     /\ rs_invoked' = {2}
                     /\ UNCHANGED urVars
    /\ UNCHANGED <<rs_prob, rs_given>>

\* -------------------------------------------------------------- DefaultOr
\* DefaultOr<T, G> with G either the UniformRange or the UniformCollection.
\* variant: Option::and in place of Option::or
Or_and(a, b) == IF a.tag = "Some" THEN b ELSE a

Or(a, b) == IF a.tag = "Some" THEN a ELSE b

InnerRet == IF do_inner = "range" THEN ur_ret ELSE uc_ret

DO_set_default(d) ==
    /\ do_default' = d
    /\ do_given' = d
    /\ do_ret' = Idle
    /\ UNCHANGED <<do_inner, urVars, ucVars>>

DO_try_generate ==
    /\ UNCHANGED <<do_default, do_given, do_inner>>
    /\ IF do_inner = "range"
       THEN UR_try_generate /\ UNCHANGED ucVars
       ELSE UC_try_generate /\ UNCHANGED urVars
    /\ do_ret' = Or(InnerRet', Some(do_default))

\* --------------------------------------------------------- specifications
NextFlags ==
    \/ \E p \in ProbInputs : RF_set_prob(p) /\ UNCHANGED <<rsVars, urVars, ucVars, doVars>>
    \/ \E f \in Masks : RF_include(f) /\ UNCHANGED <<rsVars, urVars, ucVars, doVars>>
    \/ \E f \in Masks : RF_exclude(f) /\ UNCHANGED <<rsVars, urVars, ucVars, doVars>>
    \/ \E f1, f2 \in ConstraintFlags :
           RF_constraint(f1, f2) /\ UNCHANGED <<rsVars, urVars, ucVars, doVars>>
    \/ RF_try_generate /\ UNCHANGED <<rsVars, urVars, ucVars, doVars>>

\* RandomFlags::new(prob); the other objects are not used
InitSpecFlags ==
    /\ rf_prob \in {RF_new_prob(p) : p \in ProbInputs}
    /\ inclusion = EMPTY
    /\ exclusion = EMPTY
    /\ constraints = <<>>
    /\ rf_ret = Idle
    /\ incl_ever = EMPTY
    /\ excl_ever = EMPTY
    /\ rs_prob = Zero
    /\ rs_given = Zero
    /\ rs_ret = Idle
    /\ rs_invoked = {}
    /\ ur_lb = 0
    /\ ur_ub = 0
    /\ ur_ret = Idle
    /\ uc_values = <<>>
    /\ uc_init = <<>>
    /\ uc_ret = Idle
    /\ do_default = 0
    /\ do_given = 0
    /\ do_inner = "range"
    /\ do_ret = Idle

SpecFlags == InitSpecFlags /\ [][NextFlags]_vars

NextSwitch ==
    \/ \E p \in ProbInputs : RS_set_g1_prob(p) /\ UNCHANGED <<rfVars, doVars>>
    \/ RS_try_generate /\ UNCHANGED <<rfVars, doVars>>

\* RandomSwitch::new(UniformRange::new(lb, ub), UniformCollection::new(values), prob)
InitSpecSwitch ==
    /\ \E p \in ProbInputs :
           /\ rs_prob = ClampProb(p)
           /\ rs_given = p
    /\ rs_ret = Idle
    /\ rs_invoked = {}
    /\ ur_lb \in Ints
    /\ ur_ub \in Ints
    /\ ur_ret = Idle
    /\ uc_values \in Pools
    /\ uc_init = uc_values
    /\ uc_ret = Idle
    /\ rf_prob = Zero
    /\ inclusion = EMPTY
    /\ exclusion = EMPTY
    /\ constraints = <<>>
    /\ rf_ret = Idle
    /\ incl_ever = EMPTY
    /\ excl_ever = EMPTY
    /\ do_default = 0
    /\ do_given = 0
    /\ do_inner = "range"
    /\ do_ret = Idle

SpecSwitch == InitSpecSwitch /\ [][NextSwitch]_vars

NextColl ==
    \/ UC_try_generate /\ UNCHANGED <<rfVars, rsVars, urVars, doVars>>
    \/ \E v \in Vals : UC_consume(v) /\ UNCHANGED <<rfVars, rsVars, urVars, doVars>>

\* UniformCollection::new(values)
InitSpecColl ==
    /\ uc_values \in Pools
    /\ uc_init = uc_values
    /\ uc_ret = Idle
    /\ rf_prob = Zero
    /\ inclusion = EMPTY
    /\ exclusion = EMPTY
    /\ constraints = <<>>
    /\ rf_ret = Idle
    /\ incl_ever = EMPTY
    /\ excl_ever = EMPTY
    /\ rs_prob = Zero
    /\ rs_given = Zero
    /\ rs_ret = Idle
    /\ rs_invoked = {}
    /\ ur_lb = 0
    /\ ur_ub = 0
    /\ ur_ret = Idle
    /\ do_default = 0
    /\ do_given = 0
    /\ do_inner = "range"
    /\ do_ret = Idle

SpecColl == InitSpecColl /\ [][NextColl]_vars

NextDefaultOr ==
    \/ \E d \in Ints : DO_set_default(d) /\ UNCHANGED <<rfVars, rsVars>>
    \/ DO_try_generate /\ UNCHANGED <<rfVars, rsVars>>

\* DefaultOr::new(default, inner), inner a UniformRange or a UniformCollection
InitSpecDefaultOr ==
    /\ do_default \in Ints
    /\ do_given = do_default
    /\ do_inner \in {"range", "coll"}
    /\ do_ret = Idle
    /\ ur_lb \in Ints
    /\ ur_ub \in Ints
    /\ ur_ret = Idle
    /\ uc_values \in Pools
    /\ uc_init = uc_values
    /\ uc_ret = Idle
    /\ rf_prob = Zero
    /\ inclusion = EMPTY
    /\ exclusion = EMPTY
    /\ constraints = <<>>
    /\ rf_ret = Idle
    /\ incl_ever = EMPTY
    /\ excl_ever = EMPTY
    /\ rs_prob = Zero
    /\ rs_given = Zero
    /\ rs_ret = Idle
    /\ rs_invoked = {}

SpecDefaultOr == InitSpecDefaultOr /\ [][NextDefaultOr]_vars

\* every object constructed
Init ==
    /\ rf_prob \in {RF_new_prob(p) : p \in ProbInputs}
    /\ inclusion = EMPTY
    /\ exclusion = EMPTY
    /\ constraints = <<>>
    /\ rf_ret = Idle
    /\ incl_ever = EMPTY
    /\ excl_ever = EMPTY
    /\ \E p \in ProbInputs :
           /\ rs_prob = ClampProb(p)
           /\ rs_given = p
    /\ rs_ret = Idle
    /\ rs_invoked = {}
    /\ ur_lb \in Ints
    /\ ur_ub \in Ints
    /\ ur_ret = Idle
    /\ uc_values \in Pools
    /\ uc_init = uc_values
    /\ uc_ret = Idle
    /\ do_default \in Ints
    /\ do_given = do_default
    /\ do_inner \in {"range", "coll"}
    /\ do_ret = Idle

Next ==
    \/ NextFlags
    \/ NextSwitch
    \/ NextColl
    \/ NextDefaultOr

Spec == Init /\ [][Next]_vars

\* ================================================================ claims
Called(ret) == ret.tag \in {"Some", "None", "Panic"}

\* C1: for every registered constraint (A, B), every value returned by
\* try_generate that contains all bits of A also contains all bits of B.
C1_ConstraintGuarantee ==
    rf_ret.tag = "Some" =>
        \A i \in 1..Len(constraints) :
            constraints[i][1] \subseteq rf_ret.val
                => constraints[i][2] \subseteq rf_ret.val

\* C2 as stated: with probability 0 and disjoint exclusion and inclusion
\* masks, try_generate returns exactly the inclusion mask, whatever the
\* registered constraints.
C2_ZeroProbExactlyInclusion ==
    (/\ rf_prob = Zero
     /\ BitAnd(inclusion, exclusion) = EMPTY
     /\ rf_ret.tag # "Idle")
        => rf_ret = Some(inclusion)

\* C2 amended: with probability 0 and disjoint exclusion and inclusion masks,
\* try_generate returns exactly the inclusion mask, whatever constraints have
\* been registered with a non-empty flag1.
C2_ZeroProbExactlyInclusionNonEmptyFlag1 ==
    (/\ rf_prob = Zero
     /\ BitAnd(inclusion, exclusion) = EMPTY
     /\ \A i \in 1..Len(constraints) : constraints[i][1] # EMPTY
     /\ rf_ret.tag # "Idle")
        => rf_ret = Some(inclusion)

C2_Witness ==
    /\ rf_prob = Zero
    /\ inclusion # EMPTY
    /\ BitAnd(inclusion, exclusion) = EMPTY
    /\ Len(constraints) > 0
    /\ \A i \in 1..Len(constraints) :
           /\ constraints[i][1] # EMPTY
           /\ ~(constraints[i][2] \subseteq BitOr(inclusion, exclusion))
    /\ rf_ret = Some(inclusion)

\* C3: every call of RandomFlags::try_generate completes and returns a value:
\* it never returns None and never aborts.
C3_AlwaysSucceeds ==
    rf_ret.tag \notin {"None", "Panic"}

C5_ExcludedNeverPresent ==
    rf_ret.tag = "Some" => BitAnd(rf_ret.val, excl_ever) = EMPTY

\* C6: the selection probability of a RandomSwitch is always within [0,1];
\* after a value <= 0 was given every try_generate delegates to the second
\* generator, after a value >= 1 to the first.
C6_ProbClamped ==
    /\ InUnit(rs_prob)
    /\ Called(rs_ret) =>
           /\ Le(rs_given, Zero) => rs_invoked = {2}
           /\ Le(One, rs_given) => rs_invoked = {1}

\* C7: UniformCollection::try_generate returns None iff the pool is empty,
\* otherwise an element of the pool, and leaves the pool as it was.
C7_SamplesWithoutChange ==
    [][UC_try_generate =>
          /\ uc_values' = uc_values
          /\ Len(uc_values') = Len(uc_values)
          /\ (uc_ret'.tag = "None") <=> UC_is_empty(uc_values)
          /\ ~UC_is_empty(uc_values) =>
                 /\ uc_ret'.tag = "Some"
                 /\ \E i \in 1..Len(uc_values) : uc_values[i] = uc_ret'.val]_vars

C7_Witness ==
    /\ uc_ret.tag = "Some"
    /\ Len(uc_values) = MaxPool
    /\ uc_values = uc_init

\* C8: consume(v) removes exactly one occurrence of v when v is in the pool
\* (length minus one, the other occurrences and values stay) and leaves the
\* pool unchanged when v is absent; from the pool [1,2,3], consume(2) leaves
\* [1,3] and no later generation returns 2.
C8_ConsumeOne ==
    /\ [][\A v \in Vals : UC_consume(v) =>
             IF Count(uc_values, v) > 0
             THEN /\ Len(uc_values') = Len(uc_values) - 1
                  /\ Count(uc_values', v) = Count(uc_values, v) - 1
                  /\ \A w \in Vals \ {v} : Count(uc_values', w) = Count(uc_values, w)
             ELSE uc_values' = uc_values]_vars
    /\ [][(uc_values = <<1, 2, 3>> /\ UC_consume(2)) => uc_values' = <<1, 3>>]_vars
    /\ []((/\ uc_init = <<1, 2, 3>>
           /\ Count(uc_values, 2) = 0
           /\ uc_ret.tag = "Some") => uc_ret.val \in {1, 3})

C8_Witness ==
    /\ uc_init = <<1, 2, 3>>
    /\ uc_values = <<1, 3>>
    /\ uc_ret.tag = "Some"

\* C9: DefaultOr::try_generate never returns None: it returns the inner
\* generator's value when the inner try_generate succeeds and the default most
\* recently given to new or set_default when it fails.
C9_AbsorbsFailure ==
    /\ do_ret.tag \notin {"None", "Panic"}
    /\ do_ret.tag # "Idle" =>
           /\ InnerRet.tag = "Some" => do_ret = InnerRet
           /\ InnerRet.tag = "None" => do_ret = Some(do_given)

C9_Witness ==
    /\ do_inner = "coll"
    /\ UC_is_empty(uc_values)
    /\ InnerRet = None
    /\ do_ret = Some(do_given)
    /\ do_given = MaxVal

\* C10: each RandomSwitch::try_generate call invokes exactly one of the two
\* inner generators, returns exactly that generator's result (None when the
\* selected one fails) and leaves the other generator untouched.
C10_PureSelector ==
    /\ [](Called(rs_ret) =>
            /\ Cardinality(rs_invoked) = 1
            /\ rs_ret = IF rs_invoked = {1} THEN ur_ret ELSE uc_ret)
    /\ [][RS_try_generate =>
            /\ 1 \notin rs_invoked' => UNCHANGED urVars
            /\ 2 \notin rs_invoked' => UNCHANGED ucVars]_vars
====
